---- MODULE Spec2Model ----
(***************************************************************************)
(* Model of the electrode impedance test of src/device/test2.py (the later *)
(* revision of src/device/test.py): one start_test measurement cycle with  *)
(* its four concurrent measure_channel workers on the shared I2C bus, and  *)
(* the pure helpers calculate_impedance and determine_status_and_color;    *)
(* and of start_remote_test of src/server/webpage/app.py, the server's     *)
(* call of the device followed by the insert of the measurement.           *)
(*                                                                         *)
(* Units.  A voltage is an integer number of 25 uV steps, so that one      *)
(* ADS1115 count (0.000125 V) is LSB = 5 steps, 0.01 V is 400 steps and    *)
(* 3.3 V is 132000 steps.  An impedance is an exact fraction <<n, d>> of   *)
(* ohms; d = 0 stands for a division by zero.  Floating-point rounding is  *)
(* not modelled.                                                           *)
(***************************************************************************)
EXTENDS Integers, Sequences, FiniteSets

VARIABLES
    env,          \* the fixture: which devices answer, the electrode inputs
    pc,           \* position of the request thread in start_test
    hw,           \* the handles returned by initialize_hardware (TRUE = not None)
    mosfetOn,     \* state of the excitation switch
    bus_voltage,  \* start_test local
    current,      \* start_test local
    v_in_actual,  \* start_test local
    wpc,          \* position of each measure_channel worker
    ret,          \* the value each worker's future holds
    adcMux,       \* ADS1115: channel selected by the last configuration write
    failed,       \* history: the worker's bus transfer raised
    src,          \* history: the channel whose conversion the worker read
    channels,     \* start_test local
    voltages,     \* start_test local
    resistances,  \* start_test local
    statuses,     \* start_test local
    colors,       \* start_test local
    pixels,       \* colour of each pixel of the ring
    shown,        \* what the OLED shows
    response,     \* the dict start_test returns
    raisedIn,     \* history: the sinks whose driver raised during the update
    fn,           \* a call of one of the pure helpers: its arguments and result
    remote        \* a call of the server's start_remote_test: position and locals

vars == <<env, pc, hw, mosfetOn, bus_voltage, current, v_in_actual, wpc, ret,
          adcMux, failed, src, channels, voltages, resistances,
          statuses, colors, pixels, shown, response, raisedIn, fn, remote>>

cycleVars == <<env, pc, hw, mosfetOn, bus_voltage, current, v_in_actual, wpc,
               ret, adcMux, failed, src, channels, voltages,
               resistances, statuses, colors, pixels, shown, response, raisedIn>>

----------------------------------------------------------------------------
(* Configuration, src/device/test2.py                                      *)

LSB == 5
V_IN_NOMINAL == 132000
PLAUSIBLE_FLOOR == 100000
V_ADC_EPSILON == 400
RS_VALUES == <<9950, 9890, 9970, 9930>>
FAIL_RESISTANCE_VALUE == <<1000000000, 1>>
GOOD_MIN == 100
GOOD_MAX == 5000
ACCEPTABLE_MIN == 5001
ACCEPTABLE_MAX == 20000
BAD_MIN == 20001
BAD_MAX == 500000
FAIL_MIN == 500001
RESISTANCE_RANGES ==
    [GOOD |-> <<GOOD_MIN, GOOD_MAX>>,
     ACCEPTABLE |-> <<ACCEPTABLE_MIN, ACCEPTABLE_MAX>>,
     BAD |-> <<BAD_MIN, BAD_MAX>>,
     FAIL |-> <<FAIL_MIN, FAIL_RESISTANCE_VALUE[1]>>]
LED_COUNT == 12
CHANNEL_TO_PIXEL == [c \in 0..3 |-> CASE c = 0 -> 3 [] c = 1 -> 6 [] c = 2 -> 8 [] c = 3 -> 11]

Color(r, g, b) == <<r, g, b>>
Black == Color(0, 0, 0)
Yellow == Color(255, 255, 0)
Green == Color(0, 255, 0)
Red == Color(255, 0, 0)
Blue == Color(0, 0, 255)

CHANNELS == <<0, 1, 2, 3>>
Chan == {CHANNELS[i] : i \in 1..Len(CHANNELS)}

----------------------------------------------------------------------------
(* Fractions                                                               *)

Zero == <<0, 1>>
\* q < t and q <= t for a fraction q = <<n, d>> with d > 0 and an integer t
RatLtInt(q, t) == q[1] \div q[2] < t
RatLeqInt(q, t) == (q[1] \div q[2] < t) \/ (q[1] \div q[2] = t /\ q[1] % q[2] = 0)

----------------------------------------------------------------------------
(* Pure helpers                                                            *)

\* ADS1115.read_voltage: the 16-bit result word as a signed count
ToSigned(word) == IF word > 32767 THEN word - 65536 ELSE word
\* ADS1115.read_voltage: counts to volts (0.000125 V per count)
CountsToVolts(raw) == raw * LSB
\* ADS1115.read_voltage: what the except branch returns
ReadErrorVoltage == 0

\* determine_status_and_color with the upper band edges exclusive
determine_status_and_color_strict(r_ohm) ==
    IF RatLtInt(r_ohm, RESISTANCE_RANGES.GOOD[1])
    THEN <<"ACCEPTABLE", Yellow>>
    ELSE IF RatLtInt(r_ohm, RESISTANCE_RANGES.GOOD[2])
    THEN <<"GOOD", Green>>
    ELSE IF RatLtInt(r_ohm, RESISTANCE_RANGES.ACCEPTABLE[2])
    THEN <<"ACCEPTABLE", Yellow>>
    ELSE IF RatLtInt(r_ohm, RESISTANCE_RANGES.BAD[2])
    THEN <<"BAD", Red>>
    ELSE <<"FAIL", Blue>>

determine_status_and_color(r_ohm) ==
    IF RatLtInt(r_ohm, RESISTANCE_RANGES.GOOD[1])
    THEN <<"ACCEPTABLE", Yellow>>
    ELSE IF RatLeqInt(r_ohm, RESISTANCE_RANGES.GOOD[2])
    THEN <<"GOOD", Green>>
    ELSE IF RatLeqInt(r_ohm, RESISTANCE_RANGES.ACCEPTABLE[2])
    THEN <<"ACCEPTABLE", Yellow>>
    ELSE IF RatLeqInt(r_ohm, RESISTANCE_RANGES.BAD[2])
    THEN <<"BAD", Red>>
    ELSE <<"FAIL", Blue>>

\* calculate_impedance with the low guard exclusive
calculate_impedance_strict(v_adc, r_s, v_in) ==
    IF v_adc < V_ADC_EPSILON \/ v_adc >= v_in
    THEN FAIL_RESISTANCE_VALUE
    ELSE <<r_s * (v_in - v_adc), v_adc>>

\* calculate_impedance with the divider of the earlier revision
calculate_impedance_inverted(v_adc, r_s, v_in) ==
    IF v_adc <= V_ADC_EPSILON \/ v_adc >= v_in
    THEN FAIL_RESISTANCE_VALUE
    ELSE <<r_s * v_adc, v_in - v_adc>>

\* calculate_impedance without the guard against readings above v_in
calculate_impedance_no_upper(v_adc, r_s, v_in) ==
    IF v_adc <= V_ADC_EPSILON
    THEN FAIL_RESISTANCE_VALUE
    ELSE <<r_s * (v_in - v_adc), v_adc>>

calculate_impedance(v_adc, r_s, v_in) ==
    IF v_adc <= V_ADC_EPSILON \/ v_adc >= v_in
    THEN FAIL_RESISTANCE_VALUE
    ELSE <<r_s * (v_in - v_adc), v_adc>>

\* measure_channel without an ADC handle
NoAdsResult(channel) ==
    [channel |-> channel, val |-> 0, r_val |-> FAIL_RESISTANCE_VALUE,
     status |-> "NO_ADS", color |-> Blue, raised |-> FALSE]

\* src/device/test.py, measure_channel lines 182-184 (the earlier revision)
R_REF == 10000
measure_channel_v1_resistance(val) ==
    IF 0 < val /\ val < V_IN_NOMINAL THEN <<R_REF * val, V_IN_NOMINAL - val>> ELSE Zero

\* measure_channel of the earlier revision (src/device/test.py lines 179-193):
\* resistance 0 outside 0 < val < V_IN, and every resistance that is not GOOD is BAD
MeasureResult_v1(channel, val, v_in) ==
    LET r_val == measure_channel_v1_resistance(val)
        good == 0 < r_val[1] /\ RatLtInt(r_val, RESISTANCE_RANGES.GOOD[2])
    IN  [channel |-> channel, val |-> val, r_val |-> r_val,
         status |-> IF good THEN "GOOD" ELSE "BAD",
         color |-> IF good THEN Green ELSE Red, raised |-> FALSE]

\* measure_channel after ads.read_voltage returned val.  A division by zero
\* raises in Python: the future then holds the exception.
MeasureResult(channel, val, v_in) ==
    LET r_s == IF 0 <= channel /\ channel < Len(RS_VALUES)
               THEN RS_VALUES[channel + 1] ELSE RS_VALUES[Len(RS_VALUES)]
        r_val == calculate_impedance(val, r_s, v_in)
    IN  IF r_val[2] = 0
        THEN [channel |-> channel, val |-> val, r_val |-> r_val,
              status |-> "N/A", color |-> Black, raised |-> TRUE]
        ELSE [channel |-> channel, val |-> val, r_val |-> r_val,
              status |-> determine_status_and_color(r_val)[1],
              color |-> determine_status_and_color(r_val)[2], raised |-> FALSE]

\* the reference voltage with a reading of exactly 2.5 V accepted
ReferenceVoltage_inclusive(v) == IF v >= PLAUSIBLE_FLOOR THEN v ELSE V_IN_NOMINAL

\* start_test: the reference voltage of the cycle
ReferenceVoltage(v) == IF v > PLAUSIBLE_FLOOR THEN v ELSE V_IN_NOMINAL

\* the position a result would get if results were stored in arrival order
IndexOfArrival(seq, x) == Cardinality({c \in Chan : wpc[c] = "collected"}) + 1

\* list.index
IndexOf(seq, x) == CHOOSE i \in 1..Len(seq) : seq[i] = x /\ \A j \in 1..(i - 1) : seq[j] # x

----------------------------------------------------------------------------
(* The fixture                                                             *)

\* Bounds of the model
MaxFixture == 2
InaSpan == 1
ProbeRadius == 3

\* Result words the ADS1115 can hold (unsigned 16 bit, two's complement)
Levels == <<20000, 65531, 32767, 2000, 13200, 26400, 100, 80, 26300, 32768, 81, 0>>
\* The word the converter produces for channel c in fixture k
InputWord(k, c) == Levels[((4 * k + c) % Len(Levels)) + 1]

\* INA219 bus voltage readings: around 2.5 V, and 3.3 V; its current reading, mA
InaVoltages == {PLAUSIBLE_FLOOR + k : k \in (0 - InaSpan)..InaSpan} \cup {V_IN_NOMINAL}
RailCurrent == 12

\* What a cycle runs against: which devices answer (neopixels is the setting
\* ENABLE_NEOPIXELS; a ring is driven only when it is set), the electrode
\* inputs, what the INA219 reads and whether reading it raises.
\* the configured ring, and a ring that ends before the pixel of channel 2
RingSizes == {LED_COUNT, CHANNEL_TO_PIXEL[2]}
Bench == [bus |-> TRUE, oled |-> TRUE, ina |-> TRUE, mosfet |-> TRUE, strip |-> TRUE,
          neopixels |-> TRUE, leds |-> LED_COUNT, fixture |-> 0, rail |-> V_IN_NOMINAL,
          inaFault |-> "none"]
AllEnvs ==
    [bus : BOOLEAN, oled : BOOLEAN, ina : BOOLEAN, mosfet : BOOLEAN, strip : BOOLEAN,
     neopixels : BOOLEAN, leds : RingSizes, fixture : 0..MaxFixture, rail : InaVoltages,
     inaFault : {"none", "voltage", "current"}]
\* every combination of devices on the bench inputs
EnvsDevices ==
    {e \in AllEnvs : /\ e.fixture = Bench.fixture /\ e.rail = Bench.rail
                     /\ e.inaFault = Bench.inaFault /\ (e.strip => e.neopixels)
                     /\ e.leds = Bench.leds}
\* every outcome of sampling the INA219, all devices present
EnvsRail ==
    {e \in AllEnvs : /\ e.bus /\ e.oled /\ e.ina /\ e.mosfet /\ e.strip /\ e.neopixels
                     /\ e.fixture = Bench.fixture /\ e.leds = Bench.leds}
\* every set of electrode inputs, all devices present
EnvsInputs ==
    {e \in AllEnvs : /\ e.bus /\ e.oled /\ e.ina /\ e.mosfet /\ e.strip /\ e.neopixels
                     /\ e.rail = Bench.rail /\ e.inaFault = Bench.inaFault
                     /\ e.leds = Bench.leds}
\* every length of ring, all devices present
EnvsRing == {[Bench EXCEPT !.leds = n] : n \in RingSizes}
Envs == EnvsDevices \cup EnvsRail \cup EnvsInputs \cup EnvsRing

NoResult == [channel |-> -1, val |-> 0, r_val |-> Zero, status |-> "N/A",
             color |-> Black, raised |-> FALSE]
NoResponse == [message |-> "", channels |-> <<>>, voltages |-> <<>>, resistances |-> <<>>,
               statuses |-> <<>>, electrode_count |-> -1, bus_voltage |-> 0, current |-> 0]
NoCall == [op |-> "none"]
NoRemote == [pc |-> "idle"]

----------------------------------------------------------------------------
(* One measurement cycle: start_test                                       *)

InitCycle ==
    /\ pc = "start"
    /\ hw = [oled |-> FALSE, ina |-> FALSE, ads |-> FALSE, mosfet |-> FALSE, strip |-> FALSE]
    /\ mosfetOn = FALSE
    /\ bus_voltage = 0
    /\ current = 0
    /\ v_in_actual = 0
    /\ wpc = [c \in Chan |-> "none"]
    /\ ret = [c \in Chan |-> NoResult]
    /\ adcMux = -1
    /\ failed = [c \in Chan |-> FALSE]
    /\ src = [c \in Chan |-> -1]
    /\ channels = <<>>
    /\ voltages = <<>>
    /\ resistances = <<>>
    /\ statuses = <<>>
    /\ colors = <<>>
    /\ pixels = [i \in 0..(env.leds - 1) |-> Black]
    /\ shown = "blank"
    /\ response = NoResponse
    /\ raisedIn = {}

Init ==
    /\ env \in Envs
    /\ InitCycle
    /\ fn = NoCall
    /\ remote = NoRemote

\* initialize_hardware: a handle is None when its device does not answer; the
\* ADS1115 handle needs the bus; the ring is set up only with ENABLE_NEOPIXELS
\* and is then cleared; the excitation switch starts off.
InitializeHardware ==
    /\ pc = "start"
    /\ hw' = [oled |-> env.oled, ina |-> env.ina, ads |-> env.bus, mosfet |-> env.mosfet,
              strip |-> env.neopixels /\ env.strip]
    /\ shown' = IF env.oled THEN "init" ELSE shown
    /\ mosfetOn' = FALSE
    /\ pixels' = [i \in 0..(env.leds - 1) |-> Black]
    /\ pc' = "mosfet"
    /\ UNCHANGED <<env, bus_voltage, current, v_in_actual, wpc, ret, adcMux, failed, src,
                   channels, voltages, resistances, statuses, colors, response, raisedIn,
                   fn, remote>>

\* start_test lines 280-283
MosfetOn ==
    /\ pc = "mosfet"
    /\ mosfetOn' = IF hw.mosfet THEN TRUE ELSE mosfetOn
    /\ pc' = "ina"
    /\ UNCHANGED <<env, hw, bus_voltage, current, v_in_actual, wpc, ret, adcMux, failed,
                   src, channels, voltages, resistances, statuses, colors, pixels, shown,
                   response, raisedIn, fn, remote>>

\* start_test lines 285-305: sample the INA219 (ina.voltage() or ina.current()
\* may raise; what was assigned before stays), choose the reference voltage,
\* set up the result lists.
ReadIna ==
    /\ pc = "ina"
    /\ bus_voltage' = IF hw.ina /\ env.inaFault # "voltage" THEN env.rail ELSE 0
    /\ current' = IF hw.ina /\ env.inaFault = "none" THEN RailCurrent ELSE 0
    /\ v_in_actual' = ReferenceVoltage(bus_voltage')
    /\ channels' = CHANNELS
    /\ voltages' = [i \in 1..Len(CHANNELS) |-> 0]
    /\ resistances' = [i \in 1..Len(CHANNELS) |-> Zero]
    /\ statuses' = [i \in 1..Len(CHANNELS) |-> "N/A"]
    /\ colors' = [i \in 1..Len(CHANNELS) |-> Black]
    /\ pc' = "submit"
    /\ UNCHANGED <<env, hw, mosfetOn, wpc, ret, adcMux, failed, src, pixels, shown,
                   response, raisedIn, fn, remote>>

\* start_test lines 308-311: one future per channel
Submit ==
    /\ pc = "submit"
    /\ wpc' = [c \in Chan |-> "pending"]
    /\ pc' = "collect"
    /\ UNCHANGED <<env, hw, mosfetOn, bus_voltage, current, v_in_actual, ret, adcMux,
                   failed, src, channels, voltages, resistances, statuses, colors, pixels,
                   shown, response, raisedIn, fn, remote>>

\* ADS1115.read_voltage as measure_channel sees it: the volts of the result
\* word, or 0.0 when a bus transfer raised (the except branch)
read_voltage(ok, word) == IF ok THEN CountsToVolts(ToSigned(word)) ELSE ReadErrorVoltage

\* measure_channel with a read_voltage that lets the bus error escape
measure_channel_uncaught(c, ok, word, v_in) ==
    IF ok
    THEN MeasureResult(c, CountsToVolts(ToSigned(word)), v_in)
    ELSE [channel |-> c, val |-> 0, r_val |-> Zero, status |-> "N/A", color |-> Black,
          raised |-> TRUE]

\* measure_channel with an ADC handle: the value the worker's future gets
measure_channel(c, ok, word, v_in) == MeasureResult(c, read_voltage(ok, word), v_in)

\* measure_channel, no ADC handle (lines 225-226)
MeasureNoAds(c) ==
    /\ wpc[c] = "pending"
    /\ ~hw.ads
    /\ ret' = [ret EXCEPT ![c] = NoAdsResult(c)]
    /\ wpc' = [wpc EXCEPT ![c] = "done"]
    /\ UNCHANGED <<env, pc, hw, mosfetOn, bus_voltage, current, v_in_actual, adcMux,
                   failed, src, channels, voltages, resistances, statuses, colors, pixels,
                   shown, response, raisedIn, fn, remote>>

\* read_voltage line 76: the configuration write selects the worker's channel
\* and starts a conversion.  A write that raises ends the read.
WriteConfig(c) ==
    /\ wpc[c] = "pending"
    /\ hw.ads
    /\ \E ok \in BOOLEAN :
          IF ok
          THEN /\ adcMux' = c
               /\ wpc' = [wpc EXCEPT ![c] = "written"]
               /\ UNCHANGED <<ret, failed>>
          ELSE /\ ret' = [ret EXCEPT ![c] = measure_channel(c, FALSE, 0, v_in_actual)]
               /\ failed' = [failed EXCEPT ![c] = TRUE]
               /\ wpc' = [wpc EXCEPT ![c] = "done"]
               /\ UNCHANGED adcMux
    /\ UNCHANGED <<env, pc, hw, mosfetOn, bus_voltage, current, v_in_actual, src,
                   channels, voltages, resistances, statuses, colors, pixels, shown,
                   response, raisedIn, fn, remote>>

\* ADS1115.read_voltage with a bus transfer that never returns instead of raising
ReadResult_blocking(c) ==
    /\ wpc[c] = "written"
    /\ \E ok \in BOOLEAN :
          IF ok
          THEN /\ \E s \in (IF adcMux = c THEN {c} ELSE Chan) :
                     /\ src' = [src EXCEPT ![c] = s]
                     /\ ret' = [ret EXCEPT ![c] = measure_channel(c, TRUE,
                                    InputWord(env.fixture, s), v_in_actual)]
               /\ wpc' = [wpc EXCEPT ![c] = "done"]
               /\ UNCHANGED failed
          ELSE /\ failed' = [failed EXCEPT ![c] = TRUE]
               /\ wpc' = [wpc EXCEPT ![c] = "blocked"]
               /\ UNCHANGED <<src, ret>>
    /\ UNCHANGED <<env, pc, hw, mosfetOn, bus_voltage, current, v_in_actual, adcMux,
                   channels, voltages, resistances, statuses, colors, pixels, shown,
                   response, raisedIn, fn, remote>>

\* read_voltage lines 77-88 and measure_channel lines 231-239: after the wait
\* the result register is read.  It holds the worker's own conversion when no
\* other configuration write came after the worker's; otherwise it holds the
\* worker's conversion (completed before the later write), the conversion of
\* the channel selected last, or an older one (any channel).  The rest of
\* measure_channel is local to the worker.
ReadResult(c) ==
    /\ wpc[c] = "written"
    /\ \E ok \in BOOLEAN :
          IF ok
          THEN \E s \in (IF adcMux = c THEN {c} ELSE Chan) :
                  /\ src' = [src EXCEPT ![c] = s]
                  /\ ret' = [ret EXCEPT ![c] =
                                measure_channel(c, TRUE, InputWord(env.fixture, s), v_in_actual)]
                  /\ UNCHANGED failed
          ELSE /\ ret' = [ret EXCEPT ![c] = measure_channel(c, FALSE, 0, v_in_actual)]
               /\ failed' = [failed EXCEPT ![c] = TRUE]
               /\ UNCHANGED src
    /\ wpc' = [wpc EXCEPT ![c] = "done"]
    /\ UNCHANGED <<env, pc, hw, mosfetOn, bus_voltage, current, v_in_actual, adcMux,
                   channels, voltages, resistances, statuses, colors, pixels, shown,
                   response, raisedIn, fn, remote>>

\* start_test lines 313-319: as_completed hands over any finished future;
\* future.result() re-raises what the worker raised.
Collect(c) ==
    /\ pc = "collect"
    /\ wpc[c] = "done"
    /\ wpc' = [wpc EXCEPT ![c] = "collected"]
    /\ IF ret[c].raised
       THEN /\ pc' = "raised"
            /\ UNCHANGED <<voltages, resistances, statuses, colors>>
       ELSE LET idx == IndexOf(channels, ret[c].channel)
            IN  /\ voltages' = [voltages EXCEPT ![idx] = ret[c].val]
                /\ resistances' = [resistances EXCEPT ![idx] = ret[c].r_val]
                /\ statuses' = [statuses EXCEPT ![idx] = ret[c].status]
                /\ colors' = [colors EXCEPT ![idx] = ret[c].color]
                /\ pc' = pc
    /\ UNCHANGED <<env, hw, mosfetOn, bus_voltage, current, v_in_actual, ret, adcMux,
                   failed, src, channels, pixels, shown, response, raisedIn, fn, remote>>

\* read_voltage lines 76-79: the conversions one call has started, which is the
\* number of its configuration writes (one, at line 76), and the result words it
\* has read (one, at line 79); a call that raised is counted up to its result read
ConversionsStarted(c) == IF wpc[c] = "written" \/ src[c] # -1 THEN 1 ELSE 0
ResultsRead(c) == IF src[c] # -1 THEN 1 ELSE 0

\* the fan-in loop left after the first future that completed
PoolExit_first ==
    /\ pc = "collect"
    /\ \E c \in Chan : wpc[c] = "collected"
    /\ pc' = "strip"
    /\ UNCHANGED <<env, hw, mosfetOn, bus_voltage, current, v_in_actual, wpc, ret, adcMux,
                   failed, src, channels, voltages, resistances, statuses, colors, pixels,
                   shown, response, raisedIn, fn, remote>>

\* start_test line 313 and the end of the with block: every future was handed over
PoolExit ==
    /\ pc = "collect"
    /\ \A c \in Chan : wpc[c] = "collected"
    /\ pc' = "strip"
    /\ UNCHANGED <<env, hw, mosfetOn, bus_voltage, current, v_in_actual, wpc, ret, adcMux,
                   failed, src, channels, voltages, resistances, statuses, colors, pixels,
                   shown, response, raisedIn, fn, remote>>

\* start_test line 328: the pixel of a channel
PixelIndex_unmapped(ch) == ch
PixelIndex(ch) == CHANNEL_TO_PIXEL[ch]

\* start_test lines 325-326: every pixel of the ring off
Cleared == [i \in 0..(env.leds - 1) |-> Black]

\* start_test lines 327-331: the colour of channels[idx] on its mapped pixel,
\* when the table has the channel and the pixel is on the ring
RECURSIVE Paint(_, _)
Paint(frame, idx) ==
    IF idx > Len(channels)
    THEN frame
    ELSE LET ch == channels[idx]
             pixel_index == PixelIndex(ch)
         IN  Paint(IF ch \in DOMAIN CHANNEL_TO_PIXEL /\ pixel_index < env.leds
                   THEN [frame EXCEPT ![pixel_index] = colors[idx]]
                   ELSE frame,
                   idx + 1)

\* start_test lines 325-332: what strip.show() latches out
StripFrame == Paint(Cleared, 1)

\* start_test lines 321-336: an exception of the ring driver is caught; the ring
\* keeps what it showed, since only strip.show() changes it
UpdateStrip ==
    /\ pc = "strip"
    /\ IF hw.strip /\ env.neopixels
       THEN \E ok \in BOOLEAN :
               /\ pixels' = IF ok THEN StripFrame ELSE pixels
               /\ raisedIn' = IF ok THEN raisedIn ELSE raisedIn \cup {"strip"}
       ELSE UNCHANGED <<pixels, raisedIn>>
    /\ pc' = "oled"
    /\ UNCHANGED <<env, hw, mosfetOn, bus_voltage, current, v_in_actual, wpc, ret, adcMux,
                   failed, src, channels, voltages, resistances, statuses, colors, shown,
                   response, fn, remote>>

UpdateOled_uncaught ==
    /\ pc = "oled"
    /\ IF hw.oled
       THEN \E ok \in BOOLEAN :
               /\ shown' = IF ok THEN "summary" ELSE shown
               /\ raisedIn' = IF ok THEN raisedIn ELSE raisedIn \cup {"oled"}
               /\ pc' = IF ok THEN "return" ELSE "raised"
       ELSE /\ pc' = "return"
            /\ UNCHANGED <<shown, raisedIn>>
    /\ UNCHANGED <<env, hw, mosfetOn, bus_voltage, current, v_in_actual, wpc, ret, adcMux,
                   failed, src, channels, voltages, resistances, statuses, colors, pixels,
                   response, fn, remote>>

\* start_test lines 338-360: an exception of the display driver is caught
UpdateOled ==
    /\ pc = "oled"
    /\ IF hw.oled
       THEN \E ok \in BOOLEAN :
               /\ shown' = IF ok THEN "summary" ELSE shown
               /\ raisedIn' = IF ok THEN raisedIn ELSE raisedIn \cup {"oled"}
       ELSE UNCHANGED <<shown, raisedIn>>
    /\ pc' = "return"
    /\ UNCHANGED <<env, hw, mosfetOn, bus_voltage, current, v_in_actual, wpc, ret, adcMux,
                   failed, src, channels, voltages, resistances, statuses, colors, pixels,
                   response, fn, remote>>

\* start_test lines 362-371
Return ==
    /\ pc = "return"
    /\ response' = [message |-> "Test completed on Raspberry Pi", channels |-> channels,
                    voltages |-> voltages, resistances |-> resistances,
                    statuses |-> statuses, electrode_count |-> Len(channels),
                    bus_voltage |-> bus_voltage, current |-> current]
    /\ pc' = "done"
    /\ UNCHANGED <<env, hw, mosfetOn, bus_voltage, current, v_in_actual, wpc, ret, adcMux,
                   failed, src, channels, voltages, resistances, statuses, colors, pixels,
                   shown, raisedIn, fn, remote>>

Next ==
    \/ InitializeHardware
    \/ MosfetOn
    \/ ReadIna
    \/ Submit
    \/ \E c \in Chan : MeasureNoAds(c)
    \/ \E c \in Chan : WriteConfig(c)
    \/ \E c \in Chan : ReadResult(c)
    \/ \E c \in Chan : Collect(c)
    \/ PoolExit
    \/ UpdateStrip
    \/ UpdateOled
    \/ Return

Spec == Init /\ [][Next]_vars

\* The steps of one pool thread running measure_channel(c), and the steps of
\* the request thread running start_test
Worker(c) == MeasureNoAds(c) \/ WriteConfig(c) \/ ReadResult(c)
RequestThread ==
    \/ InitializeHardware \/ MosfetOn \/ ReadIna \/ Submit
    \/ \E c \in Chan : Collect(c)
    \/ PoolExit \/ UpdateStrip \/ UpdateOled \/ Return

\* The bench with and without an answering I2C bus
EnvsFair == {[Bench EXCEPT !.bus = b] : b \in BOOLEAN}
InitFair ==
    /\ env \in EnvsFair
    /\ InitCycle
    /\ fn = NoCall
    /\ remote = NoRemote

\* The cycle under fair scheduling: the pool has one thread per channel
\* (max_workers=4), every thread that can take a step is eventually run, and
\* a bus transfer or a sleep returns or raises.
SpecFair ==
    /\ InitFair
    /\ [][Next]_vars
    /\ WF_vars(RequestThread)
    /\ \A c \in Chan : WF_vars(Worker(c))

----------------------------------------------------------------------------
(* Calls of the pure helpers on their own                                  *)

Near(xs) == {x + k : x \in xs, k \in (0 - ProbeRadius)..ProbeRadius}
VInProbe == {V_IN_NOMINAL, PLAUSIBLE_FLOOR + 1, 200000}
VAdcProbe ==
    Near({0, V_ADC_EPSILON, 66000} \cup VInProbe)
        \cup {CountsToVolts(ToSigned(32768)), CountsToVolts(ToSigned(32767))}
RsProbe == {RS_VALUES[i] : i \in 1..Len(RS_VALUES)} \cup {0 - 1, 0, 1, R_REF}

InitCalc ==
    /\ env = Bench
    /\ InitCycle
    /\ fn \in [op : {"calculate_impedance"}, v_adc : VAdcProbe, r_s : RsProbe,
               v_in : VInProbe, called : {FALSE}, out : {Zero}]
    /\ remote = NoRemote

CallCalculate ==
    /\ fn.op = "calculate_impedance"
    /\ ~fn.called
    /\ fn' = [fn EXCEPT !.called = TRUE,
                        !.out = calculate_impedance(fn.v_adc, fn.r_s, fn.v_in)]
    /\ UNCHANGED <<cycleVars, remote>>

SpecCalc == InitCalc /\ [][CallCalculate]_vars

\* impedances around every band edge, in half ohms, within [0, sentinel]
BandEdges ==
    {0, GOOD_MIN, GOOD_MAX, ACCEPTABLE_MIN, ACCEPTABLE_MAX, BAD_MIN, BAD_MAX, FAIL_MIN,
     FAIL_RESISTANCE_VALUE[1]}
        \cup {(GOOD_MIN + GOOD_MAX) \div 2, (ACCEPTABLE_MIN + ACCEPTABLE_MAX) \div 2,
              (BAD_MIN + BAD_MAX) \div 2, 2 * FAIL_MIN}
RProbe ==
    {q \in {<<2 * b + k, 2>> : b \in BandEdges, k \in (0 - ProbeRadius)..ProbeRadius}
            \cup {<<b, 1>> : b \in BandEdges} :
        q[1] >= 0 /\ RatLeqInt(q, FAIL_RESISTANCE_VALUE[1])}

InitClassify ==
    /\ env = Bench
    /\ InitCycle
    /\ fn \in [op : {"determine_status_and_color"}, r_ohm : RProbe, called : {FALSE},
               out : {<<"N/A", Black>>}]
    /\ remote = NoRemote

CallClassify ==
    /\ fn.op = "determine_status_and_color"
    /\ ~fn.called
    /\ fn' = [fn EXCEPT !.called = TRUE, !.out = determine_status_and_color(fn.r_ohm)]
    /\ UNCHANGED <<cycleVars, remote>>

SpecClassify == InitClassify /\ [][CallClassify]_vars

----------------------------------------------------------------------------
(* The server: start_remote_test of src/server/webpage/app.py              *)
(*                                                                         *)
(* A JSON scalar is a pair <<tag, value>>: a number, a string that spells  *)
(* a number, any other string, or null.  A JSON object is a record with    *)
(* the set `has` of the keys it holds.                                     *)

Num(v) == <<"num", v>>
NumText(v) == <<"numstr", v>>
Text == <<"str", 0>>
Null == <<"null", 0>>

\* Python float(x): the number for a number or a string spelling one;
\* ValueError or TypeError for anything else
CanFloat(x) == x[1] \in {"num", "numstr"}
Float(x) == <<"num", x[2]>>

\* Bound of the model: the longest lists in a body of the device
MaxItems == 5

Keys == {"message", "channels", "voltages", "resistances", "statuses",
         "electrode_count", "bus_voltage", "current"}
JsonList(items) == [list |-> TRUE, items |-> items]
NotAList == [list |-> FALSE, items |-> <<>>]

\* what the device's start_test answers for n channels
DeviceBody(n) ==
    [object |-> TRUE, has |-> Keys,
     message |-> "Test completed on Raspberry Pi",
     channels |-> [k \in 1..n |-> k - 1],
     voltages |-> [k \in 1..n |-> Num(LSB * 4000 * k)],
     resistances |-> JsonList([k \in 1..n |-> Num(2500 * k)]),
     statuses |-> [k \in 1..n |-> "GOOD"],
     electrode_count |-> n,
     bus_voltage |-> Num(V_IN_NOMINAL),
     current |-> Num(RailCurrent)]

\* bodies of every length with some keys missing
BodiesPartial ==
    {[DeviceBody(n) EXCEPT !.has = h] :
        n \in 0..MaxItems,
        h \in {Keys, Keys \ {"electrode_count"}, Keys \ {"resistances"},
               Keys \ {"bus_voltage", "current"}, Keys \ {"message", "statuses"},
               {"channels"}, {}}}
\* bodies that parse as JSON but do not have the types of the device's answer
BodiesIllTyped ==
    {[DeviceBody(4) EXCEPT !.object = FALSE],
     [DeviceBody(4) EXCEPT !.resistances = NotAList],
     [DeviceBody(4) EXCEPT !.bus_voltage = Null],
     [DeviceBody(4) EXCEPT !.bus_voltage = NumText(V_IN_NOMINAL)],
     [DeviceBody(4) EXCEPT !.current = Text]}
        \cup {[DeviceBody(MaxItems) EXCEPT !.resistances.items[k] = Text] : k \in 1..MaxItems}
Bodies == BodiesPartial \cup BodiesIllTyped

\* requests.post, raise_for_status and res.json(): what raises, or the body
Replies ==
    [kind : {"connection_error", "timeout", "http_error", "unparsable"},
     body : {DeviceBody(0)}]
        \cup [kind : {"json"}, body : Bodies]

SENSOR_UNIT == "Ohm"
SchemaFields == {"message", "timestamp", "channels", "voltages", "resistances",
                 "statuses", "electrode_count", "bus_voltage", "current", "unit"}

\* dict.get(key, default)
Get(data, key, default) == IF key \in data.has THEN data[key] ELSE default

\* lines 285-288 without the length test: a missing impedance is None
Padded_unguarded(impedances, i) ==
    IF Len(impedances.items) > i THEN impedances.items[i + 1] ELSE Null

\* lines 285-288: impedances[i] when the list has it, else 0.0
Padded(impedances, i) ==
    IF Len(impedances.items) > i THEN impedances.items[i + 1] ELSE Num(0)

RemoteStart ==
    [pc |-> "start", reply |-> [kind |-> "none", body |-> DeviceBody(0)],
     channels |-> <<>>, impedances |-> JsonList(<<>>), bus_voltage |-> Null,
     current |-> Null, electrode_count |-> 0, z |-> <<>>,
     attempts |-> 0, executes |-> 0, connection |-> "none", cursor |-> "none",
     rows |-> <<>>, out |-> [message |-> ""]]

InitRemote ==
    /\ env = Bench
    /\ InitCycle
    /\ fn = NoCall
    /\ remote = RemoteStart

\* lines 273-276: the call of the device.  A connection error, a timeout, an
\* HTTP error status and a body that is not JSON all raise into the outer except.
PostStartTest ==
    /\ remote.pc = "start"
    /\ \E reply \in Replies :
          remote' = [remote EXCEPT !.reply = reply,
                                   !.pc = IF reply.kind = "json" THEN "fields" ELSE "except"]
    /\ UNCHANGED <<cycleVars, fn>>

\* lines 278-288: the locals.  data.get on a body that is not an object,
\* len() of a value that is not a list and float() of a value that is not a
\* number raise into the outer except.
ReadFields ==
    /\ remote.pc = "fields"
    /\ LET data == remote.reply.body
           channels_ == Get(data, "channels", <<>>)
           impedances == Get(data, "resistances", JsonList(<<>>))
           zs == [i \in 1..4 |-> Padded(impedances, i - 1)]
       IN  IF data.object /\ impedances.list /\ \A i \in 1..4 : CanFloat(zs[i])
           THEN remote' = [remote EXCEPT
                              !.channels = channels_,
                              !.impedances = impedances,
                              !.bus_voltage = Get(data, "bus_voltage", Num(0)),
                              !.current = Get(data, "current", Num(0)),
                              !.electrode_count =
                                  Get(data, "electrode_count", Len(channels_)),
                              !.z = [i \in 1..4 |-> Float(zs[i])],
                              !.pc = "connect"]
           ELSE remote' = [remote EXCEPT !.pc = "except"]
    /\ UNCHANGED <<cycleVars, fn>>

\* lines 294-297: get_db_connection(); psycopg.connect may raise into the
\* inner except
Connect ==
    /\ remote.pc = "connect"
    /\ \E ok \in BOOLEAN :
          remote' = [remote EXCEPT !.attempts = @ + 1,
                                   !.connection = IF ok THEN "open" ELSE @,
                                   !.pc = IF ok THEN "cursor" ELSE "finally"]
    /\ UNCHANGED <<cycleVars, fn>>

\* line 298: connection.cursor()
OpenCursor ==
    /\ remote.pc = "cursor"
    /\ \E ok \in BOOLEAN :
          remote' = [remote EXCEPT !.cursor = IF ok THEN "open" ELSE @,
                                   !.pc = IF ok THEN "execute" ELSE "finally"]
    /\ UNCHANGED <<cycleVars, fn>>

\* lines 313-316: the arguments are built first, float(bus_voltage) and
\* float(current) raising into the inner except; then the INSERT, which the
\* autocommit connection makes durable when it succeeds
ExecuteInsert ==
    /\ remote.pc = "execute"
    /\ IF CanFloat(remote.bus_voltage) /\ CanFloat(remote.current)
       THEN \E ok \in BOOLEAN :
               remote' = [remote EXCEPT
                             !.executes = @ + 1,
                             !.rows = IF ok
                                      THEN Append(@, <<"now", remote.z[1], remote.z[2],
                                                       remote.z[3], remote.z[4],
                                                       Float(remote.bus_voltage),
                                                       Float(remote.current),
                                                       remote.electrode_count>>)
                                      ELSE @,
                             !.pc = "finally"]
       ELSE remote' = [remote EXCEPT !.pc = "finally"]
    /\ UNCHANGED <<cycleVars, fn>>

\* lines 318-326: the inner except prints; finally closes what was opened
CloseDb ==
    /\ remote.pc = "finally"
    /\ remote' = [remote EXCEPT
                     !.cursor = IF @ = "open" THEN "closed" ELSE @,
                     !.connection = IF @ = "open" THEN "closed" ELSE @,
                     !.pc = "return"]
    /\ UNCHANGED <<cycleVars, fn>>

\* lines 329-340: the response.  float(bus_voltage) and float(current) raise
\* into the outer except.
ReturnData ==
    /\ remote.pc = "return"
    /\ LET data == remote.reply.body
       IN  IF CanFloat(remote.bus_voltage) /\ CanFloat(remote.current)
           THEN remote' = [remote EXCEPT
                              !.out = [message |-> Get(data, "message", "Test completed"),
                                       timestamp |-> "now",
                                       channels |-> remote.channels,
                                       voltages |-> Get(data, "voltages", <<>>),
                                       resistances |-> remote.impedances.items,
                                       statuses |-> Get(data, "statuses", <<>>),
                                       electrode_count |-> remote.electrode_count,
                                       bus_voltage |-> Float(remote.bus_voltage),
                                       current |-> Float(remote.current),
                                       unit |-> SENSOR_UNIT],
                              !.pc = "returned"]
           ELSE remote' = [remote EXCEPT !.pc = "except"]
    /\ UNCHANGED <<cycleVars, fn>>

\* lines 342-357: the outer except
FailureResponse ==
    [message |-> "Kunne ikke kontakte Raspberry Pi", timestamp |-> "now",
     channels |-> <<>>, voltages |-> <<>>, resistances |-> <<>>, statuses |-> <<>>,
     electrode_count |-> 0, bus_voltage |-> Num(0), current |-> Num(0),
     unit |-> SENSOR_UNIT]

ReturnFailure ==
    /\ remote.pc = "except"
    /\ remote' = [remote EXCEPT !.out = FailureResponse, !.pc = "returned"]
    /\ UNCHANGED <<cycleVars, fn>>

NextRemote ==
    \/ PostStartTest
    \/ ReadFields
    \/ Connect
    \/ OpenCursor
    \/ ExecuteInsert
    \/ CloseDb
    \/ ReturnData
    \/ ReturnFailure

SpecRemote == InitRemote /\ [][NextRemote]_vars

----------------------------------------------------------------------------
(* Properties                                                              *)

Finished(c) == wpc[c] \in {"done", "collected"}
IsFinite(q) == q[2] > 0
IsNonNegative(q) == q[1] >= 0 /\ q[2] > 0
Sentinel == <<1000000000, 1>>

\* C1: whatever the order in which the workers complete and are collected,
\* position k of voltages, resistances and statuses holds the result of the
\* worker of channels[k] (the placeholder until that worker is collected), and
\* the returned lists are these in configured channel order 0, 1, 2, 3.
C1_ChannelOrder ==
    /\ pc \notin {"start", "mosfet", "ina"} =>
          /\ channels = <<0, 1, 2, 3>>
          /\ \A k \in 1..4 :
                IF wpc[channels[k]] = "collected"
                THEN /\ voltages[k] = ret[channels[k]].val
                     /\ resistances[k] = ret[channels[k]].r_val
                     /\ statuses[k] = ret[channels[k]].status
                     /\ ret[channels[k]].channel = k - 1
                ELSE /\ voltages[k] = 0
                     /\ resistances[k] = Zero
                     /\ statuses[k] = "N/A"
    /\ pc = "done" =>
          /\ response.channels = <<0, 1, 2, 3>>
          /\ \A k \in 1..4 :
                /\ response.voltages[k] = ret[k - 1].val
                /\ response.resistances[k] = ret[k - 1].r_val
                /\ response.statuses[k] = ret[k - 1].status

\* C1 witness: the last channel was collected before the first one finished,
\* with a reading of its own
C1_Witness ==
    /\ pc = "collect"
    /\ wpc[3] = "collected"
    /\ wpc[0] \in {"pending", "written"}
    /\ src[3] = 3
    /\ statuses[4] = "BAD"
    /\ statuses[1] = "N/A"

\* C2: at no time are two workers both between their configuration write and
\* their result read
C2_BusCriticalSection == Cardinality({c \in Chan : wpc[c] = "written"}) <= 1

\* C3: when the transport fails for exactly one channel, that channel and only
\* that channel reports the no-device status, and every other channel reports
\* the voltage, impedance and status of its own reading
C3_FailedReadIsNoDevice ==
    (pc = "done" /\ Cardinality({c \in Chan : failed[c]}) = 1) =>
        \A k \in 1..4 :
            IF failed[k - 1]
            THEN response.statuses[k] \in {"NO_DEVICE", "NO_ADS"}
            ELSE /\ response.statuses[k] \notin {"NO_DEVICE", "NO_ADS"}
                 /\ response.voltages[k] =
                        CountsToVolts(ToSigned(InputWord(env.fixture, k - 1)))

\* C4: a cycle never ends with an exception, and the result it returns has one
\* entry per configured channel in each list, none of them the placeholder
C4_CompleteResult ==
    /\ pc # "raised"
    /\ pc = "done" =>
          /\ response.electrode_count = 4
          /\ Len(response.channels) = 4
          /\ Len(response.voltages) = 4
          /\ Len(response.resistances) = 4
          /\ Len(response.statuses) = 4
          /\ \A k \in 1..4 :
                /\ response.channels[k] = k - 1
                /\ response.statuses[k] \in {"GOOD", "ACCEPTABLE", "BAD", "FAIL", "NO_ADS"}
                /\ IsFinite(response.resistances[k])

\* C4 witness: a result returned with switch, display and ring absent and a
\* failed channel read
C4_Witness ==
    /\ pc = "done"
    /\ ~hw.mosfet /\ ~hw.oled /\ ~hw.strip
    /\ failed[2]
    /\ response.statuses[3] = "FAIL"

\* C5: calculate_impedance returns exactly the sentinel 1e9 for every input
\* with v_adc <= 0.01 V or v_adc >= v_in, whatever r_s is
C5_SentinelOutsideRange ==
    (fn.op = "calculate_impedance" /\ fn.called /\ (fn.v_adc <= 400 \/ fn.v_adc >= fn.v_in))
        => fn.out = Sentinel

\* C5 witness: a call at exactly 0.01 V with a negative r_s
C5_Witness ==
    /\ fn.op = "calculate_impedance" /\ fn.called
    /\ fn.v_adc = 400 /\ fn.r_s < 0
    /\ fn.out = Sentinel

\* C6 as stated: for 0 < v_adc < v_in and r_s > 0 the result is the finite,
\* non-negative r_s * (v_in - v_adc) / v_adc
C6_DividerForPositive ==
    (fn.op = "calculate_impedance" /\ fn.called /\ 0 < fn.v_adc /\ fn.v_adc < fn.v_in
         /\ fn.r_s > 0)
        => /\ fn.out = <<fn.r_s * (fn.v_in - fn.v_adc), fn.v_adc>>
           /\ IsNonNegative(fn.out)

\* C6 amended: for 0.01 V < v_adc < v_in and r_s > 0 the result is the finite,
\* non-negative r_s * (v_in - v_adc) / v_adc
C6_DividerAboveEpsilon ==
    (fn.op = "calculate_impedance" /\ fn.called /\ 400 < fn.v_adc /\ fn.v_adc < fn.v_in
         /\ fn.r_s > 0)
        => /\ fn.out = <<fn.r_s * (fn.v_in - fn.v_adc), fn.v_adc>>
           /\ IsNonNegative(fn.out)

\* C6 witness: a call just above 0.01 V
C6_Witness ==
    /\ fn.op = "calculate_impedance" /\ fn.called
    /\ fn.v_adc = 401 /\ fn.r_s = 9950 /\ fn.v_in = 132000
    /\ fn.out = <<9950 * 131599, 401>>

\* C7: every impedance a cycle reports is finite and non-negative, for
\* negative readings, readings above the excitation voltage, an absent ADC and
\* failed reads; so is the resistance the earlier revision computes from the
\* same readings
C7_ImpedanceFiniteNonNegative ==
    /\ \A c \in Chan : Finished(c) =>
          /\ IsNonNegative(ret[c].r_val)
          /\ IsNonNegative(measure_channel_v1_resistance(ret[c].val))
    /\ pc \notin {"start", "mosfet", "ina"} => \A k \in 1..4 : IsNonNegative(resistances[k])
    /\ pc = "done" => \A k \in 1..4 : IsNonNegative(response.resistances[k])

\* C7 witness: a returned cycle with a negative reading, a reading above the
\* excitation voltage and a failed read
C7_Witness ==
    /\ pc = "done"
    /\ \E k \in 1..4 : response.voltages[k] < 0 /\ response.resistances[k] = Sentinel
    /\ \E k \in 1..4 : response.voltages[k] >= v_in_actual /\ response.resistances[k] = Sentinel
    /\ \E c \in Chan : failed[c]

RatIs(q, t) == q[1] = t * q[2]
Classified(status, color) == fn.out = <<status, color>>

\* C8 as stated: every impedance in [0, sentinel] gets exactly one of the four
\* (status, colour) pairs, and a value equal to a band boundary (100, 5000,
\* 20000, 500000) is classified into the lower of the two bands it separates
C8_BoundaryToLowerBand ==
    (fn.op = "determine_status_and_color" /\ fn.called) =>
        /\ fn.out \in {<<"ACCEPTABLE", <<255, 255, 0>>>>, <<"GOOD", <<0, 255, 0>>>>,
                       <<"BAD", <<255, 0, 0>>>>, <<"FAIL", <<0, 0, 255>>>>}
        /\ RatIs(fn.r_ohm, 100) => Classified("ACCEPTABLE", <<255, 255, 0>>)
        /\ RatIs(fn.r_ohm, 5000) => Classified("GOOD", <<0, 255, 0>>)
        /\ RatIs(fn.r_ohm, 20000) => Classified("ACCEPTABLE", <<255, 255, 0>>)
        /\ RatIs(fn.r_ohm, 500000) => Classified("BAD", <<255, 0, 0>>)

\* C8 amended: every impedance in [0, sentinel] gets exactly one of the four
\* (status, colour) pairs; a value equal to good_max 5000, acceptable_max 20000
\* or bad_max 500000 is classified into the lower band, and a value equal to
\* the floor 100 into the band above it, GOOD
C8_UpperEdgesInclusive ==
    (fn.op = "determine_status_and_color" /\ fn.called) =>
        /\ fn.out \in {<<"ACCEPTABLE", <<255, 255, 0>>>>, <<"GOOD", <<0, 255, 0>>>>,
                       <<"BAD", <<255, 0, 0>>>>, <<"FAIL", <<0, 0, 255>>>>}
        /\ RatIs(fn.r_ohm, 100) => Classified("GOOD", <<0, 255, 0>>)
        /\ RatIs(fn.r_ohm, 5000) => Classified("GOOD", <<0, 255, 0>>)
        /\ RatIs(fn.r_ohm, 20000) => Classified("ACCEPTABLE", <<255, 255, 0>>)
        /\ RatIs(fn.r_ohm, 500000) => Classified("BAD", <<255, 0, 0>>)

\* C8 witness: the classifier called on exactly 500000 ohms
C8_Witness ==
    /\ fn.op = "determine_status_and_color" /\ fn.called
    /\ fn.r_ohm = <<500000, 1>>
    /\ fn.out = <<"BAD", <<255, 0, 0>>>>

\* the configured bands: RESISTANCE_RANGES and the band below the GOOD floor
ConfiguredBands ==
    {[status |-> "ACCEPTABLE", lo |-> 0, hi |-> RESISTANCE_RANGES.GOOD[1], open |-> TRUE]}
        \cup {[status |-> b, lo |-> RESISTANCE_RANGES[b][1], hi |-> RESISTANCE_RANGES[b][2],
               open |-> FALSE] : b \in {"GOOD", "ACCEPTABLE", "BAD", "FAIL"}}
InBand(q, b) ==
    /\ b.lo * q[2] <= q[1]
    /\ IF b.open THEN q[1] < b.hi * q[2] ELSE q[1] <= b.hi * q[2]

\* C9: every impedance lies in exactly one configured band, the classifier
\* gives it the status of that band, and the sentinel lies in the FAIL band
C9_BandsPartition ==
    (fn.op = "determine_status_and_color" /\ fn.called) =>
        /\ Cardinality({b \in ConfiguredBands : InBand(fn.r_ohm, b)}) = 1
        /\ \A b \in ConfiguredBands : InBand(fn.r_ohm, b) => fn.out[1] = b.status
        /\ \E b \in ConfiguredBands : b.status = "FAIL" /\ InBand(Sentinel, b)

ExpectedReference ==
    IF hw.ina /\ env.inaFault # "voltage" /\ env.rail > 100000 THEN env.rail ELSE 132000
UsesReference(c, v) ==
    (Finished(c) /\ hw.ads) =>
        ret[c].r_val =
            IF ret[c].val <= 400 \/ ret[c].val >= v
            THEN Sentinel
            ELSE <<RS_VALUES[c + 1] * (v - ret[c].val), ret[c].val>>

\* C10 as stated: the excitation voltage of every channel of a cycle is the
\* sampled bus voltage when it is above 2.5 V, and 3.3 V when it is at or below
\* 2.5 V, when the power monitor is absent or when sampling it raised
C10_ReferenceOrFallback ==
    pc \notin {"start", "mosfet", "ina"} =>
        /\ (hw.ina /\ env.inaFault = "none" /\ env.rail > 100000) => v_in_actual = env.rail
        /\ (~hw.ina \/ env.inaFault # "none" \/ env.rail <= 100000) => v_in_actual = 132000
        /\ \A c \in Chan : UsesReference(c, v_in_actual)

\* C10 amended: the excitation voltage of every channel of a cycle is the
\* sampled bus voltage when it is above 2.5 V, and 3.3 V when it is at or below
\* 2.5 V, when the power monitor is absent or when reading its voltage raised;
\* a current read that raises after the voltage was read leaves the sampled
\* voltage in use
C10_ReferenceFromVoltageRead ==
    pc \notin {"start", "mosfet", "ina"} =>
        /\ (hw.ina /\ env.inaFault # "voltage" /\ env.rail > 100000) => v_in_actual = env.rail
        /\ (~hw.ina \/ env.inaFault = "voltage" \/ env.rail <= 100000) => v_in_actual = 132000
        /\ \A c \in Chan : UsesReference(c, ExpectedReference)

\* C10 witness: a returned cycle whose first channel read 2.5 V and was
\* measured against a sampled bus voltage of 2.500025 V
C10_Witness ==
    /\ pc = "done"
    /\ bus_voltage = 100001
    /\ v_in_actual = 100001
    /\ response.voltages[1] = 100000
    /\ response.resistances[1] = <<9950, 100000>>

\* what start_test returns for the worker results and the INA219 sample it holds
ExpectedResponse ==
    [message |-> "Test completed on Raspberry Pi",
     channels |-> CHANNELS,
     voltages |-> [k \in 1..Len(CHANNELS) |-> ret[CHANNELS[k]].val],
     resistances |-> [k \in 1..Len(CHANNELS) |-> ret[CHANNELS[k]].r_val],
     statuses |-> [k \in 1..Len(CHANNELS) |-> ret[CHANNELS[k]].status],
     electrode_count |-> Len(CHANNELS),
     bus_voltage |-> bus_voltage,
     current |-> current]

\* C11: an exception of the ring driver or of the display driver during the
\* update never ends the cycle with an exception, and the dict the cycle
\* returns is the one fixed by the worker results and the INA219 sample,
\* whichever sinks raised, succeeded or were absent.
C11_SinkFailureIsolated ==
    /\ raisedIn # {} => pc \in {"oled", "return", "done"}
    /\ pc = "done" => response = ExpectedResponse

\* both sinks raised and the cycle returned
C11_Witness ==
    /\ pc = "done"
    /\ raisedIn = {"strip", "oled"}
    /\ response.statuses = <<"GOOD", "FAIL", "FAIL", "BAD">>

\* C12: a worker that holds an ADC handle and whose reading is at most 0.01 V
\* (0.0 V included, also the 0.0 V of a failed read) or at least the
\* excitation voltage of the cycle returns the sentinel impedance, the status
\* FAIL and the blue colour.
C12_OpenCircuitEndToEnd ==
    \A c \in Chan :
        (Finished(c) /\ hw.ads /\ ~ret[c].raised
            /\ (ret[c].val <= V_ADC_EPSILON \/ ret[c].val >= v_in_actual))
        => /\ ret[c].r_val = FAIL_RESISTANCE_VALUE
           /\ ret[c].status = "FAIL"
           /\ ret[c].color = Blue

\* channel 3 read its own conversion of 0.0 V; channel 1 read a negative
\* voltage; both are reported open, and channel 0 is not
C12_Witness ==
    /\ pc = "done"
    /\ ~failed[3] /\ src[3] = 3 /\ ret[3].val = 0
    /\ response.resistances[4] = FAIL_RESISTANCE_VALUE
    /\ response.statuses[4] = "FAIL"
    /\ colors[4] = Blue
    /\ ret[1].val < 0 /\ response.statuses[2] = "FAIL"
    /\ response.statuses[1] # "FAIL"

SinkTouched ==
    \/ shown = "summary"
    \/ raisedIn # {}
    \/ \E i \in DOMAIN pixels : pixels[i] # Black

\* C13: within one cycle the switch is enabled before the INA219 is sampled,
\* no worker exists (so no channel is read) before the sample is complete,
\* the ring and the display are touched only when all four workers have
\* finished and their results are collected, and the result is returned
\* only after the sinks.
C13_CycleOrder ==
    /\ pc \in {"start", "mosfet"} => (bus_voltage = 0 /\ current = 0 /\ channels = <<>>)
    /\ (hw.mosfet /\ pc \notin {"start", "mosfet"}) => mosfetOn
    /\ pc \in {"start", "mosfet", "ina", "submit"} => \A c \in Chan : wpc[c] = "none"
    /\ (pc \in {"strip", "oled", "return", "done"} \/ SinkTouched)
           => \A c \in Chan : wpc[c] = "collected"
    /\ SinkTouched => pc \in {"oled", "return", "done"}
    /\ response # NoResponse => pc = "done"

\* a cycle with switch, monitor, ADC, ring and display went through all steps
C13_Witness ==
    /\ pc = "done"
    /\ mosfetOn /\ hw.ina /\ bus_voltage = V_IN_NOMINAL
    /\ \A c \in Chan : src[c] = c
    /\ pixels[CHANNEL_TO_PIXEL[0]] = Green
    /\ shown = "summary"
    /\ response.electrode_count = Len(CHANNELS)

\* the worker has started a conversion of its channel or read a result
HasRead(c) == wpc[c] = "written" \/ src[c] # -1
\* the request thread has asked the INA219 for the bus voltage
HasSampled == hw.ina /\ pc \notin {"start", "mosfet", "ina"}

\* C14: the switch is off when the cycle begins, and every ADC channel read
\* and the INA219 sample of the cycle happen while the switch is on (it is
\* never turned off inside a cycle, so on at the read means on since the
\* enable step).
C14_ReadsUnderExcitation ==
    /\ pc = "start" => ~mosfetOn
    /\ HasSampled => mosfetOn
    /\ \A c \in Chan : HasRead(c) => mosfetOn

\* C15: a call of the channel reader that returned a reading has started one
\* discarded conversion and then 3 sample conversions, has read the 3 sample
\* results, and returns their mean (the inputs of the bench do not change
\* during a call, so the mean of the samples is the volts of the channel's
\* input word).
C15_DummyThenThreeSamples ==
    \A c \in Chan :
        (Finished(c) /\ src[c] # -1)
        => /\ ConversionsStarted(c) = 1 + 3
           /\ ResultsRead(c) >= 3
           /\ ret[c].val = CountsToVolts(ToSigned(InputWord(env.fixture, c)))

\* the channel the fixed table puts on position i, -1 when there is none
ChannelAt(i) ==
    CASE i = 3 -> 0 [] i = 6 -> 1 [] i = 8 -> 2 [] i = 11 -> 3 [] OTHER -> 0 - 1

StripUpdated == pc \in {"oled", "return", "done"} /\ hw.strip /\ "strip" \notin raisedIn

\* C16: when the ring was updated, the positions 3, 6, 8 and 11 that lie on
\* the ring show the colours of channels 0, 1, 2 and 3, every other position
\* of the ring is black, and a mapped position beyond the end of the ring is
\* left out: the ring has exactly its own positions.
C16_StripMapping ==
    StripUpdated
    => /\ DOMAIN pixels = 0..(env.leds - 1)
       /\ \A i \in DOMAIN pixels :
             pixels[i] = IF ChannelAt(i) \in Chan THEN colors[ChannelAt(i) + 1] ELSE Black

\* a ring of 8 pixels: channels 0 and 1 are shown at 3 and 6, channels 2 and 3
\* are skipped, nothing raised
C16_Witness ==
    /\ pc = "done" /\ hw.strip /\ raisedIn = {}
    /\ env.leds = 8
    /\ \A c \in Chan : src[c] = c
    /\ pixels[3] = Green /\ pixels[6] = Blue
    /\ \A i \in DOMAIN pixels \ {3, 6} : pixels[i] = Black
    /\ colors[3] = Blue /\ colors[4] = Red

\* C17: under fair scheduling every cycle returns its result, whichever bus
\* transfers of whichever workers raised, and the fan-in loop is left with
\* exactly one result collected for each of the four submitted channels.
C17_CycleReturns ==
    /\ <>(pc = "done" /\ response.electrode_count = Len(CHANNELS))
    /\ [](pc \in {"strip", "oled", "return", "done"}
            => /\ \A c \in Chan : wpc[c] = "collected"
               /\ \A k \in 1..Len(CHANNELS) : voltages[k] = ret[CHANNELS[k]].val)
    /\ [][\A c \in Chan : wpc[c] = "collected" => wpc'[c] = "collected"]_vars

\* a cycle returned although the reads of channels 1 and 2 raised
C17_Witness ==
    /\ pc = "done"
    /\ failed[1] /\ failed[2] /\ ~failed[0] /\ ~failed[3]
    /\ response.statuses[2] = "FAIL"
    /\ src[0] = 0 /\ response.statuses[1] = "GOOD"

\* C18: in every interleaving of the four workers, the result word a worker
\* reads is a conversion of its own channel (the configuration it wrote last
\* was still the selected one), so the voltage reported for channel c is the
\* volts of channel c's input.
C18_NoContamination ==
    \A c \in Chan :
        (Finished(c) /\ src[c] # -1)
        => /\ src[c] = c
           /\ ret[c].val = read_voltage(TRUE, InputWord(env.fixture, c))

Returned == remote.pc = "returned"
CallSucceeded == remote.reply.kind = "json"
Impedances(data) == Get(data, "resistances", JsonList(<<>>))

\* the row for the body: the first four impedances, 0.0 for a missing one
RowFor(data) ==
    LET items == Impedances(data).items
        z(i) == IF Len(items) >= i THEN Float(items[i]) ELSE Num(0)
    IN  <<"now", z(1), z(2), z(3), z(4), Float(Get(data, "bus_voltage", Num(0))),
          Float(Get(data, "current", Num(0))),
          Get(data, "electrode_count", Len(Get(data, "channels", <<>>)))>>

\* the body's fields as they came, with the defaults for the missing ones
DataAsSent(data) ==
    [message |-> Get(data, "message", "Test completed"),
     timestamp |-> "now",
     channels |-> Get(data, "channels", <<>>),
     voltages |-> Get(data, "voltages", <<>>),
     resistances |-> Impedances(data).items,
     statuses |-> Get(data, "statuses", <<>>),
     electrode_count |-> Get(data, "electrode_count", Len(Get(data, "channels", <<>>))),
     bus_voltage |-> Get(data, "bus_voltage", Num(0)),
     current |-> Get(data, "current", Num(0)),
     unit |-> SENSOR_UNIT]

\* the body is an object whose impedances are a list with numbers in its first
\* four places and whose bus voltage and current are numbers
WellTyped(data) ==
    /\ data.object
    /\ Impedances(data).list
    /\ \A i \in 1..4 :
          Len(Impedances(data).items) >= i => CanFloat(Impedances(data).items[i])
    /\ CanFloat(Get(data, "bus_voltage", Num(0)))
    /\ CanFloat(Get(data, "current", Num(0)))

DbReleased == remote.connection # "open" /\ remote.cursor # "open"

====
